---- MODULE Spec2Model ----
(***************************************************************************)
(* HPNT ENG Manager V2: the material-request repository of app_new.py and *)
(* its image store, as a state machine over the material_requests table,  *)
(* the AUTOINCREMENT / SERIAL counter and the image directory.            *)
(*                                                                         *)
(* Text values are tuples of one-character strings, so that strip(),       *)
(* int(), startswith() and the file-name builders are computed, not       *)
(* assumed.                                                                *)
(***************************************************************************)
EXTENDS Integers, Sequences, FiniteSets, TLC

VARIABLES USE_POSTGRES, DB_INIT_DONE, ddl, table, seq, files, now, last, ops

\* The threads of the process inside the before_request hook: where each
\* thread is, the holder of _DB_INIT_LOCK, and how many executions of
\* init_material_database were started, returned and raised.
VARIABLES pc, lock, started, returned, raised, served

hookvars == <<pc, lock, started, returned, raised, served>>

\* A delete request statement by statement next to one concurrent writer:
\* where the delete is, the id it deletes, the rows its renumbering read, and
\* the write that was committed meanwhile.
VARIABLES dpc, request_id, all_data, written

renumvars == <<dpc, request_id, all_data, written>>

\* The environment the storage locations are resolved from with the two
\* resolved locations, and the storage adapter: the call it was given and the
\* call that reached the psycopg2 object behind it.
VARIABLES environ, db_path, images_dir, given, sent

libvars == <<environ, db_path, images_dir, given, sent>>

vars == <<USE_POSTGRES, DB_INIT_DONE, ddl, table, seq, files, now, last, ops,
          pc, lock, started, returned, raised, served,
          dpc, request_id, all_data, written,
          environ, db_path, images_dir, given, sent>>

(***************************************************************************)
(* Bounds of the model.                                                    *)
(***************************************************************************)
MaxOps == 3
MaxTime == 1
MaxRows == 4
TicksPerDay == 2
NumThreads == 2
MaxServed == 2
MaxRaises == 1
MaxQueryLen == 3

(***************************************************************************)
(* Text helpers.                                                           *)
(***************************************************************************)
Digits == <<"0", "1", "2", "3", "4", "5", "6", "7", "8", "9">>

IsDigit(c) == \E i \in 1..10 : Digits[i] = c

IsAlnum(c) ==
    IsDigit(c) \/ c \in {"a", "b", "p", "v", "s", "r", "x", "P", "N", "G", "n", "g", "j"}

RECURSIVE lstrip(_)
lstrip(s) == IF s # <<>> /\ Head(s) = " " THEN lstrip(Tail(s)) ELSE s

RECURSIVE rstrip(_)
rstrip(s) ==
    IF s # <<>> /\ s[Len(s)] = " " THEN rstrip(SubSeq(s, 1, Len(s) - 1)) ELSE s

strip(s) == rstrip(lstrip(s))

startswith(s, prefix) ==
    /\ Len(s) >= Len(prefix)
    /\ SubSeq(s, 1, Len(prefix)) = prefix

RECURSIVE DigitsValue(_)
DigitsValue(s) ==
    IF s = <<>> THEN 0
    ELSE 10 * DigitsValue(SubSeq(s, 1, Len(s) - 1)) + (CHOOSE i \in 1..10 : Digits[i] = s[Len(s)]) - 1

\* int(text): surrounding blanks are ignored, one optional sign, then digits;
\* anything else raises ValueError (ok = FALSE).
py_int(text) ==
    LET t == strip(text)
        signed == t # <<>> /\ Head(t) \in {"-", "+"}
        body == IF signed THEN Tail(t) ELSE t
    IN IF body # <<>> /\ \A i \in 1..Len(body) : IsDigit(body[i])
       THEN [ok |-> TRUE,
             val |-> IF signed /\ Head(t) = "-" THEN 0 - DigitsValue(body)
                     ELSE DigitsValue(body)]
       ELSE [ok |-> FALSE, val |-> 0]

RECURSIVE SelectChars(_)
SelectChars(s) ==
    IF s = <<>> THEN <<>>
    ELSE IF IsAlnum(Head(s)) \/ Head(s) \in {" ", "-", "_"}
         THEN <<Head(s)>> \o SelectChars(Tail(s))
         ELSE SelectChars(Tail(s))

NameCut == 20

\* ''.join(c for c in item_name if c.isalnum() or c in (' ','-','_')).strip()[:20]
safe_item_name(item_name) ==
    LET kept == strip(SelectChars(item_name))
    IN SubSeq(kept, 1, IF Len(kept) < NameCut THEN Len(kept) ELSE NameCut)

(***************************************************************************)
(* Values of the images column and names of files in the image directory.  *)
(* NULL is the SQL null, EmptyText the empty string ''.                    *)
(***************************************************************************)
NULL == [kind |-> "NULL", id |-> 0, ts |-> 0, name |-> <<>>, ext |-> <<>>]

EmptyText == [kind |-> "", id |-> 0, ts |-> 0, name |-> <<>>, ext |-> <<>>]

\* f"{timestamp}_{safe_item_name}.{image_format}"
DataUrlFilename(ts, safe, fmt) ==
    [kind |-> "data", id |-> 0, ts |-> ts, name |-> safe, ext |-> fmt]

\* f"material_{request_id}_{timestamp}.{file_extension}"
UploadFilename(id, ts, ext) ==
    [kind |-> "material", id |-> id, ts |-> ts, name |-> <<>>, ext |-> ext]

\* Python truthiness of a fetched images value: None and '' are falsy.
Truthy(img) == img # NULL /\ img # EmptyText

\* strftime('%Y%m%d_%H%M%S'): one-second resolution.
Timestamp(t) == t

\* strftime('%Y-%m-%d')
DateOf(t) == t \div TicksPerDay

(***************************************************************************)
(* The relational store: the material_requests table as a function from    *)
(* id to row, the AUTOINCREMENT / SERIAL counter, and the image directory. *)
(***************************************************************************)
Db == [table |-> table, seq |-> seq, files |-> files]

Ids(t) == DOMAIN t

RowCount(t) == Cardinality(Ids(t))

MaxOf(S) == IF S = {} THEN 0 ELSE CHOOSE m \in S : \A x \in S : x <= m

\* id given to an INSERT that names no id.  SQLite AUTOINCREMENT: one more
\* than the larger of sqlite_sequence.seq and the largest rowid; PostgreSQL
\* SERIAL: nextval of the sequence.
NextId(db, pg) ==
    IF pg THEN db.seq + 1
    ELSE (IF db.seq > MaxOf(Ids(db.table)) THEN db.seq ELSE MaxOf(Ids(db.table))) + 1

InsertRow(db, pg, row) ==
    LET id == NextId(db, pg)
    IN [db EXCEPT !.table = [i \in Ids(db.table) \cup {id} |->
                                IF i = id THEN row ELSE db.table[i]],
                  !.seq = id]

\* cursor.lastrowid after a single-row INSERT: the rowid on sqlite3; on
\* psycopg2 the OID of the row, which a table without OIDs does not have
\* (0 or None, never the SERIAL id).
NoRowId == 0

lastrowid(db, pg) == IF pg THEN NoRowId ELSE db.seq

\* Sample texts, one token per syllable or character.
SampleDate0106 == 0 - 1
SampleDate0105 == 0 - 2

sample_data(t) == <<
    [item_name |-> <<"an", "jeon", "mo">>, quantity |-> 10,
     specifications |-> <<"huin", "saek", ",", " ", "C", "E", " ", "in", "jeung">>,
     reason |-> <<"hyeon", "jang", " ", "an", "jeon", " ", "gang", "hwa", "reul",
                  " ", "wi", "hae", " ", "pil", "yo">>,
     urgency |-> "high", request_date |-> SampleDate0106, vendor |-> <<>>,
     status |-> "pending", images |-> EmptyText, created_at |-> t],
    [item_name |-> <<"jak", "eop", "jang", "gap">>, quantity |-> 20,
     specifications |-> <<"myeon", "jang", "gap", ",", " ", "L", "sa", "i", "jeu">>,
     reason |-> <<"jak", "eop", "ja", " ", "bo", "ho", "yong">>,
     urgency |-> "normal", request_date |-> SampleDate0106, vendor |-> <<>>,
     status |-> "pending", images |-> EmptyText, created_at |-> t],
    [item_name |-> <<"jeon", "seon">>, quantity |-> 3,
     specifications |-> <<"2", ".", "5", "s", "q", ",", " ", "1", "0", "0", "m">>,
     reason |-> <<"jeon", "gi", " ", "bae", "seon", " ", "jak", "eop", "yong">>,
     urgency |-> "normal", request_date |-> SampleDate0105, vendor |-> <<>>,
     status |-> "pending", images |-> EmptyText, created_at |-> t] >>

RECURSIVE InsertMany(_, _, _)
InsertMany(db, pg, rows) ==
    IF rows = <<>> THEN db
    ELSE InsertMany(InsertRow(db, pg, Head(rows)), pg, Tail(rows))

init_always_inserts(db, pg, t) == InsertMany(db, pg, sample_data(t))

\* init_material_database(): CREATE TABLE IF NOT EXISTS, then the sample rows
\* only when SELECT COUNT(*) is 0.
init_material_database(db, pg, t) ==
    IF Cardinality(Ids(db.table)) > 0 THEN db
    ELSE InsertMany(db, pg, sample_data(t))

\* @app.before_request _ensure_db_initialized_once
ensure_db_initialized_once(db, done, pg, t) ==
    IF done THEN db ELSE init_material_database(db, pg, t)

(***************************************************************************)
(* Requests and responses.                                                 *)
(***************************************************************************)
NoText == <<>>

BlankReq ==
    [id |-> 0, item_name |-> NoText, quantity |-> NoText, qty |-> 0,
     specifications |-> NoText, reason |-> NoText, urgency |-> "normal",
     vendor |-> NoText, status |-> "pending", has_vendor |-> FALSE,
     has_status |-> FALSE, image_data |-> NoText, has_file |-> FALSE,
     filename |-> NoText, size |-> 0, content_type |-> NoText,
     status_filter |-> "all", search |-> NoText, io_error |-> ""]

\* Result codes of the db_postgres functions, which return a boolean.
ReturnedTrue == 1
ReturnedFalse == 0

\* A row-shaped value for "no row".
NoRow ==
    [item_name |-> NoText, quantity |-> 0, specifications |-> NoText,
     reason |-> NoText, urgency |-> "", request_date |-> 0, vendor |-> NoText,
     status |-> "", images |-> NULL, created_at |-> 0]

RowOrNone(t, id) == IF id \in Ids(t) THEN t[id] ELSE NoRow

\* total, counts and requests are filled in by the two reading handlers:
\* counts is a mapping as a set of <<status, count>> pairs, requests the ids of
\* the listed rows in the order of the listing.
Resp(code, error) ==
    [code |-> code, error |-> error, new_id |-> 0, filename |-> NULL,
     total |-> 0, counts |-> {}, requests |-> <<>>]

(***************************************************************************)
(* POST /add                                                               *)
(***************************************************************************)
DataImagePrefix == "data:image/"

IndexOf(s, c) ==
    IF \E i \in 1..Len(s) : s[i] = c
    THEN CHOOSE i \in 1..Len(s) : s[i] = c /\ \A j \in 1..(i - 1) : s[j] # c
    ELSE 0

\* The try block of add_page that stores a data-URL image.  image_data is a
\* tuple of tokens <<"data:image/", fmt, ";", "base64", ",", payload>>.  Returns
\* the file name, or NULL when any step raises (no comma to split on, or a
\* payload base64 cannot decode): the file is opened for writing before the
\* payload is decoded, so an undecodable payload still leaves an (empty) file.
\* io_error is what the file system does: "" (nothing), "open" (open() raises
\* and no file is made) or "write" (f.write() raises and the file stays).
save_from_data_url(image_data, item_name, t, io_error) ==
    LET comma == IndexOf(image_data, ",")
        header == SubSeq(image_data, 1, comma - 1)
        encoded == SubSeq(image_data, comma + 1, Len(image_data))
        semi == IndexOf(header, ";")
        first == IF semi = 0 THEN header ELSE SubSeq(header, 1, semi - 1)
        image_format == SubSeq(first, 2, Len(first))
        fname == DataUrlFilename(Timestamp(t), safe_item_name(item_name), image_format)
        decodes == \A i \in 1..Len(encoded) : encoded[i] = "QUJD"
    IN IF comma = 0 \/ io_error = "open" THEN [filename |-> NULL, written |-> {}]
       ELSE IF ~decodes \/ io_error = "write" THEN [filename |-> NULL, written |-> {fname}]
       ELSE [filename |-> fname, written |-> {fname}]

\* The checks of add_page, in the order the code makes them: int() of the
\* quantity raises first, then the name, then the quantity range.
add_validate_allows_zero(req) ==
    LET item_name == strip(req.item_name)
        quantity == py_int(req.quantity)
    IN IF ~quantity.ok THEN "quantity_not_numeric"
       ELSE IF item_name = <<>> THEN "name_required"
       ELSE IF quantity.val < 0 THEN "quantity_below_1"
       ELSE ""

add_validate(req) ==
    LET item_name == strip(req.item_name)
        quantity == py_int(req.quantity)
    IN IF ~quantity.ok THEN "quantity_not_numeric"
       ELSE IF item_name = <<>> THEN "name_required"
       ELSE IF quantity.val <= 0 THEN "quantity_below_1"
       ELSE ""

add_image(t, req) ==
    LET image_data == strip(req.image_data)
    IN IF image_data # <<>> /\ Head(image_data) = DataImagePrefix
       THEN save_from_data_url(image_data, strip(req.item_name), t, req.io_error)
       ELSE [filename |-> NULL, written |-> {}]

add_row_trusts_form(t, req, image_filename) ==
    [item_name |-> strip(req.item_name), quantity |-> py_int(req.quantity).val,
     specifications |-> strip(req.specifications), reason |-> strip(req.reason),
     urgency |-> req.urgency, request_date |-> DateOf(t),
     vendor |-> strip(req.vendor), status |-> req.status,
     images |-> image_filename, created_at |-> t]

add_row(t, req, image_filename) ==
    [item_name |-> strip(req.item_name), quantity |-> py_int(req.quantity).val,
     specifications |-> strip(req.specifications), reason |-> strip(req.reason),
     urgency |-> req.urgency, request_date |-> DateOf(t),
     vendor |-> strip(req.vendor), status |-> "pending",
     images |-> image_filename, created_at |-> t]

add_page_image_first(db, pg, t, req) ==
    LET error == add_validate(req)
        img == add_image(t, req)
        db1 == [db EXCEPT !.files = db.files \cup img.written]
        db2 == InsertRow(db1, pg, add_row(t, req, img.filename))
    IN IF error # "" THEN [db |-> db1, resp |-> Resp(200, error)]
       ELSE [db |-> db2,
             resp |-> [Resp(302, "") EXCEPT !.new_id = lastrowid(db2, pg),
                                            !.filename = img.filename]]

\* An add_page whose INSERT is skipped when the image could not be saved.
add_page_image_required(db, pg, t, req) ==
    LET error == add_validate(req)
        img == add_image(t, req)
        db1 == [db EXCEPT !.files = db.files \cup img.written]
        db2 == InsertRow(db1, pg, add_row(t, req, img.filename))
    IN IF error # "" THEN [db |-> db, resp |-> Resp(200, error)]
       ELSE IF strip(req.image_data) # <<>> /\ img.filename = NULL
       THEN [db |-> db1, resp |-> Resp(200, "image_not_saved")]
       ELSE [db |-> db2,
             resp |-> [Resp(302, "") EXCEPT !.new_id = lastrowid(db2, pg),
                                            !.filename = img.filename]]

add_page(db, pg, t, req) ==
    LET error == add_validate(req)
        img == add_image(t, req)
        db1 == [db EXCEPT !.files = db.files \cup img.written]
        db2 == InsertRow(db1, pg, add_row(t, req, img.filename))
    IN IF error # "" THEN [db |-> db, resp |-> Resp(200, error)]
       ELSE [db |-> db2,
             resp |-> [Resp(302, "") EXCEPT !.new_id = lastrowid(db2, pg),
                                            !.filename = img.filename]]

(***************************************************************************)
(* POST /admin/edit/<id> and POST /admin/update/<id>                       *)
(***************************************************************************)
UpdateRow(db, id, row) == [db EXCEPT !.table = [db.table EXCEPT ![id] = row]]

\* An update_fields that also writes the urgency of the request body.
admin_edit_material_info_with_urgency(db, req) ==
    LET item_name == strip(req.item_name)
        quantity == req.qty
        specifications == strip(req.specifications)
        reason == strip(req.reason)
    IN IF item_name = <<>> THEN [db |-> db, resp |-> Resp(400, "name_required")]
       ELSE IF quantity < 1 THEN [db |-> db, resp |-> Resp(400, "quantity_below_1")]
       ELSE IF req.id \notin Ids(db.table) THEN [db |-> db, resp |-> Resp(404, "not_found")]
       ELSE [db |-> UpdateRow(db, req.id,
                        [db.table[req.id] EXCEPT !.item_name = item_name,
                                                 !.quantity = quantity,
                                                 !.specifications = specifications,
                                                 !.reason = reason,
                                                 !.urgency = req.urgency]),
             resp |-> Resp(200, "")]

admin_edit_material_info(db, req) ==
    LET item_name == strip(req.item_name)
        quantity == req.qty
        specifications == strip(req.specifications)
        reason == strip(req.reason)
    IN IF item_name = <<>> THEN [db |-> db, resp |-> Resp(400, "name_required")]
       ELSE IF quantity < 1 THEN [db |-> db, resp |-> Resp(400, "quantity_below_1")]
       ELSE IF req.id \notin Ids(db.table) THEN [db |-> db, resp |-> Resp(404, "not_found")]
       ELSE [db |-> UpdateRow(db, req.id,
                        [db.table[req.id] EXCEPT !.item_name = item_name,
                                                 !.quantity = quantity,
                                                 !.specifications = specifications,
                                                 !.reason = reason]),
             resp |-> Resp(200, "")]

\* An update_status that keeps the stored value of a field the body omits.
admin_update_request_keeps_omitted(db, req) ==
    LET old == RowOrNone(db.table, req.id)
        vendor == IF req.has_vendor THEN req.vendor ELSE old.vendor
        status == IF req.has_status THEN req.status ELSE old.status
    IN IF req.id \notin Ids(db.table) THEN [db |-> db, resp |-> Resp(404, "not_found")]
       ELSE [db |-> UpdateRow(db, req.id,
                        [db.table[req.id] EXCEPT !.vendor = vendor, !.status = status]),
             resp |-> Resp(200, "")]

admin_update_request(db, req) ==
    LET vendor == IF req.has_vendor THEN req.vendor ELSE <<>>
        status == IF req.has_status THEN req.status ELSE "pending"
    IN IF req.id \notin Ids(db.table) THEN [db |-> db, resp |-> Resp(404, "not_found")]
       ELSE [db |-> UpdateRow(db, req.id,
                        [db.table[req.id] EXCEPT !.vendor = vendor, !.status = status]),
             resp |-> Resp(200, "")]

\* db_postgres.update_material_request_status(request_id, status, vendor):
\* the vendor column is written only when the vendor argument is truthy; the
\* function returns True whether or not a row matched.
update_material_request_status(db, req) ==
    LET old == db.table[req.id]
        row == IF req.vendor # <<>>
               THEN [old EXCEPT !.status = req.status, !.vendor = req.vendor]
               ELSE [old EXCEPT !.status = req.status]
    IN IF req.id \notin Ids(db.table) THEN [db |-> db, resp |-> Resp(ReturnedTrue, "")]
       ELSE [db |-> UpdateRow(db, req.id, row), resp |-> Resp(ReturnedTrue, "")]

(***************************************************************************)
(* reindex_material_request_ids                                            *)
(***************************************************************************)
\* The k-th id in ORDER BY id.
NthId(t, k) == CHOOSE i \in Ids(t) : Cardinality({j \in Ids(t) : j < i}) = k - 1

reindex_keeps_sequence(db, pg) ==
    LET n == Cardinality(Ids(db.table))
    IN IF pg THEN db
       ELSE [db EXCEPT !.table = [i \in 1..n |-> db.table[NthId(db.table, i)]]]

reindex_newest_first(db, pg) ==
    LET n == Cardinality(Ids(db.table))
    IN IF pg THEN db
       ELSE [db EXCEPT !.table = [i \in 1..n |-> db.table[NthId(db.table, n + 1 - i)]],
                       !.seq = n]

reindex_from_zero(db, pg) ==
    LET n == Cardinality(Ids(db.table))
    IN IF pg THEN db
       ELSE [db EXCEPT !.table = [i \in 0..(n - 1) |-> db.table[NthId(db.table, i + 1)]],
                       !.seq = n]

\* Reinserts the rows without their created_at, which then takes its default.
reindex_without_created_at(db, pg) ==
    LET n == Cardinality(Ids(db.table))
    IN IF pg THEN db
       ELSE [db EXCEPT !.table = [i \in 1..n |->
                                    [db.table[NthId(db.table, i)] EXCEPT !.created_at = now]],
                       !.seq = n]

reindex_material_request_ids(db, pg) ==
    LET n == Cardinality(Ids(db.table))
    IN IF pg THEN db
       ELSE [db EXCEPT !.table = [i \in 1..n |-> db.table[NthId(db.table, i)]],
                       !.seq = n]

(***************************************************************************)
(* POST and DELETE /admin/image/<id>                                       *)
(***************************************************************************)
MaxUploadBytes == 5 * 1024 * 1024

ImageMimePrefix == <<"i", "m", "a", "g", "e", "/">>

lower(c) ==
    CASE c = "P" -> "p" [] c = "N" -> "n" [] c = "G" -> "g" [] OTHER -> c

LastIndexOf(s, c) ==
    IF \E i \in 1..Len(s) : s[i] = c
    THEN CHOOSE i \in 1..Len(s) : s[i] = c /\ \A j \in (i + 1)..Len(s) : s[j] # c
    ELSE 0

\* file.filename.rsplit('.', 1)[1].lower() if '.' in file.filename else 'jpg'
file_extension(filename) ==
    LET dot == LastIndexOf(filename, ".")
    IN IF dot = 0 THEN <<"j", "p", "g">>
       ELSE [i \in 1..(Len(filename) - dot) |-> lower(filename[dot + i])]

RemoveFile_keeps(fs, f) == fs

\* os.path.exists + os.remove
RemoveFile(fs, f) == fs \ {f}

StoredImage(db, id) == IF id \in Ids(db.table) THEN db.table[id].images ELSE NULL

SetImages(db, id, img) ==
    IF id \in Ids(db.table)
    THEN UpdateRow(db, id, [db.table[id] EXCEPT !.images = img])
    ELSE db

upload_validate_below_limit(req) ==
    IF ~req.has_file THEN "no_file"
    ELSE IF req.filename = <<>> THEN "no_filename"
    ELSE IF req.size >= MaxUploadBytes THEN "too_large"
    ELSE IF ~startswith(req.content_type, ImageMimePrefix) THEN "not_image"
    ELSE ""

upload_validate(req) ==
    IF ~req.has_file THEN "no_file"
    ELSE IF req.filename = <<>> THEN "no_filename"
    ELSE IF req.size > MaxUploadBytes THEN "too_large"
    ELSE IF ~startswith(req.content_type, ImageMimePrefix) THEN "not_image"
    ELSE ""

admin_edit_image_post(db, t, req) ==
    LET old == StoredImage(db, req.id)
        db1 == IF Truthy(old) THEN [db EXCEPT !.files = RemoveFile(db.files, old)] ELSE db
        filename == UploadFilename(req.id, Timestamp(t), file_extension(req.filename))
        db2 == [db1 EXCEPT !.files = db1.files \cup {filename}]
        db3 == SetImages(db2, req.id, filename)
        error == upload_validate(req)
    IN IF error # "" THEN [db |-> db, resp |-> Resp(400, error)]
       ELSE [db |-> db3, resp |-> [Resp(200, "") EXCEPT !.filename = filename]]

\* An image clear that calls os.remove without asking os.path.exists: a
\* missing file raises and the handler answers 500 before its UPDATE.
admin_edit_image_delete_unchecked(db, req) ==
    LET image_filename == StoredImage(db, req.id)
        db1 == [db EXCEPT !.files = RemoveFile(db.files, image_filename)]
    IN IF ~Truthy(image_filename) THEN [db |-> db, resp |-> Resp(400, "no_image")]
       ELSE IF image_filename \notin db.files THEN [db |-> db, resp |-> Resp(500, "exception")]
       ELSE [db |-> SetImages(db1, req.id, NULL), resp |-> Resp(200, "")]

admin_edit_image_delete(db, req) ==
    LET image_filename == StoredImage(db, req.id)
        db1 == [db EXCEPT !.files = RemoveFile(db.files, image_filename)]
    IN IF ~Truthy(image_filename) THEN [db |-> db, resp |-> Resp(400, "no_image")]
       ELSE [db |-> SetImages(db1, req.id, NULL), resp |-> Resp(200, "")]

(***************************************************************************)
(* POST /admin/copy/<id> and DELETE /admin/delete/<id>                     *)
(***************************************************************************)
admin_copy_request(db, pg, t, req) ==
    LET src == db.table[req.id]
        row == [item_name |-> src.item_name, quantity |-> src.quantity,
                specifications |-> src.specifications, reason |-> src.reason,
                urgency |-> src.urgency, request_date |-> DateOf(t),
                vendor |-> <<>>, status |-> "pending", images |-> src.images,
                created_at |-> t]
        db1 == InsertRow(db, pg, row)
    IN IF req.id \notin Ids(db.table) THEN [db |-> db, resp |-> Resp(404, "not_found")]
       ELSE [db |-> db1, resp |-> [Resp(200, "") EXCEPT !.new_id = lastrowid(db1, pg)]]

DeleteRow(db, id) ==
    [db EXCEPT !.table = [i \in Ids(db.table) \ {id} |-> db.table[i]]]

admin_delete_request(db, pg, req) ==
    LET image_filename == StoredImage(db, req.id)
        db1 == DeleteRow(db, req.id)
        db2 == IF pg THEN db1 ELSE reindex_material_request_ids(db1, pg)
        db3 == IF Truthy(image_filename)
               THEN [db2 EXCEPT !.files = RemoveFile(db2.files, image_filename)]
               ELSE db2
    IN IF req.id \notin Ids(db.table) THEN [db |-> db, resp |-> Resp(404, "not_found")]
       ELSE [db |-> db3, resp |-> Resp(200, "")]

\* db_postgres.delete_material_request(request_id): deletes the row when it
\* exists and returns True whether or not a row matched; touches no file and
\* renumbers nothing.
delete_material_request(db, req) ==
    [db |-> IF req.id \in Ids(db.table) THEN DeleteRow(db, req.id) ELSE db,
     resp |-> Resp(ReturnedTrue, "")]

\* ORDER BY created_at ASC, id ASC: row j comes before row i.
\* The k-th id in ORDER BY created_at ASC, id ASC.
NthCreated(t, k) ==
    CHOOSE i \in Ids(t) :
        Cardinality({ j \in Ids(t) : \/ t[j].created_at < t[i].created_at
                                     \/ (t[j].created_at = t[i].created_at /\ j < i) }) = k - 1

\* db_postgres.reindex_postgres_ids(): returns at once on an empty table;
\* otherwise drops and recreates the table (a new SERIAL sequence) and
\* reinserts the rows in ORDER BY created_at ASC, id ASC.
reindex_postgres_ids(db) ==
    LET n == Cardinality(Ids(db.table))
    IN IF n = 0 THEN [db |-> db, resp |-> Resp(ReturnedTrue, "")]
       ELSE [db |-> [db EXCEPT !.table = [k \in 1..n |-> db.table[NthCreated(db.table, k)]],
                               !.seq = n],
             resp |-> Resp(ReturnedTrue, "")]

\* POST /admin/reindex-ids
admin_reindex_ids(db, pg) ==
    [db |-> IF pg THEN db ELSE reindex_material_request_ids(db, pg),
     resp |-> Resp(200, "")]

\* GET /admin/force-init-db
force_init_db(db, pg, t) ==
    [db |-> init_material_database(db, pg, t), resp |-> Resp(200, "")]

(***************************************************************************)
(* The CREATE TABLE statement the table comes from: none yet, the one of    *)
(* init_material_database (request_date NOT NULL without a default), or the *)
(* one of db_postgres (request_date with a default).                        *)
(***************************************************************************)
NoTable == "none"
AppDdl == "app_new"
PgDdl == "db_postgres"

\* A text column left NULL.
NullText == <<"<NULL>">>

\* The rows db_postgres.insert_sample_data inserts: it names item_name,
\* quantity, specifications, reason, urgency and status; the other columns get
\* their defaults (vendor and images NULL, request_date and created_at now).
PgSample(n, q, sp, r, u, t) ==
    [item_name |-> n, quantity |-> q, specifications |-> sp, reason |-> r,
     urgency |-> u, request_date |-> DateOf(t), vendor |-> NullText,
     status |-> "pending", images |-> NULL, created_at |-> t]

Sus304 == <<"S", "U", "S", "3", "0", "4", " ", "seu", "te", "in", "ri", "seu", " ", "seu", "til">>

pg_sample_data(t) == <<
    PgSample(<<"bol", "teu", " ", "M", "8", "x", "2", "0">>, 50, Sus304,
             <<"jang", "bi", " ", "go", "jeong", "yong">>, "normal", t),
    PgSample(<<"neo", "teu", " ", "M", "8">>, 50, Sus304,
             <<"bol", "teu", "wa", " ", "se", "teu">>, "normal", t),
    PgSample(<<"wa", "syeo", " ", "M", "8">>, 100,
             <<"pyeong", "wa", "syeo", ",", " ", "a", "yeon", "do", "geum">>,
             <<"bol", "teu", " ", "jo", "im", "yong">>, "low", t),
    PgSample(<<"ke", "i", "beul", " ", "ta", "i">>, 200,
             <<"2", "0", "0", "m", "m", ",", " ", "geom", "jeong", "saek">>,
             <<"ke", "i", "beul", " ", "jeong", "ri", "yong">>, "normal", t),
    PgSample(<<"jeon", "seon", " ", "2", ".", "5", "s", "q">>, 100,
             <<"K", "I", "V", " ", "jeon", "seon", ",", " ", "ppal", "gan", "saek">>,
             <<"jeon", "won", " ", "bae", "seon", "yong">>, "high", t) >>

\* db_postgres.insert_sample_data(): nothing when the table has a row.  On the
\* empty table the first INSERT names no request_date: with the table of
\* init_material_database that violates NOT NULL, the function returns False
\* and nothing is committed (the sequence value drawn for the row is used up).
insert_sample_data(db, made, t) ==
    IF RowCount(db.table) > 0 THEN [db |-> db, resp |-> Resp(ReturnedTrue, "")]
    ELSE IF made = AppDdl
         THEN [db |-> [db EXCEPT !.seq = db.seq + 1],
               resp |-> Resp(ReturnedFalse, "not_null_violation")]
    ELSE [db |-> InsertMany(db, TRUE, pg_sample_data(t)), resp |-> Resp(ReturnedTrue, "")]

(***************************************************************************)
(* GET /requests and GET /api/stats                                        *)
(***************************************************************************)
\* The status column of a row updated with a JSON null.
NullStatus == "<NULL>"

status_counts_without_null(t) ==
    { <<st, Cardinality({i \in Ids(t) : t[i].status = st})>> :
        st \in {t[i].status : i \in Ids(t)} \ {NullStatus} }

\* SELECT status, COUNT(*) ... GROUP BY status, as dict(cursor.fetchall()):
\* one pair for every value the column holds, NULL included.
status_counts(t) ==
    { <<st, Cardinality({i \in Ids(t) : t[i].status = st})>> :
        st \in {t[i].status : i \in Ids(t)} }

RECURSIVE sum_values(_)
sum_values(counts) ==
    IF counts = {} THEN 0
    ELSE LET p == CHOOSE q \in counts : TRUE
         IN p[2] + sum_values(counts \ {p})

\* status_counts.get(key, 0)
counts_get(counts, key) ==
    IF \E p \in counts : p[1] = key
    THEN (CHOOSE p \in counts : p[1] = key)[2]
    ELSE 0

\* The ASCII letters of the texts in use, folded to lower case.
ascii_lower(c) ==
    CASE c = "A" -> "a" [] c = "C" -> "c" [] c = "E" -> "e" [] c = "L" -> "l"
      [] c = "P" -> "p" [] c = "N" -> "n" [] c = "G" -> "g" [] OTHER -> c

\* One character of a text against one ordinary character of a LIKE pattern:
\* SQLite's LIKE ignores the case of ASCII letters, PostgreSQL's does not.
like_char(pg, c, p) == IF pg THEN c = p ELSE ascii_lower(c) = ascii_lower(p)

\* text LIKE pattern: % matches any run of characters, _ any one character.
RECURSIVE like(_, _, _)
like(pg, text, pattern) ==
    IF pattern = <<>> THEN text = <<>>
    ELSE IF Head(pattern) = "%"
         THEN like(pg, text, Tail(pattern))
              \/ (text # <<>> /\ like(pg, Tail(text), pattern))
    ELSE /\ text # <<>>
         /\ (Head(pattern) = "_" \/ like_char(pg, Head(text), Head(pattern)))
         /\ like(pg, Tail(text), Tail(pattern))

\* The k-th id of S in ORDER BY id DESC.
NthLargest(S, k) == CHOOSE i \in S : Cardinality({j \in S : j > i}) = k - 1

\* GET /requests?status=..&search=..
requests_page(db, pg, req) ==
    LET t == db.table
        search_param == <<"%">> \o req.search \o <<"%">>
        selected == { i \in Ids(t) :
                        /\ req.status_filter # "all"
                              => (t[i].status # NullStatus /\ t[i].status = req.status_filter)
                        /\ req.search # <<>>
                              => \/ like(pg, t[i].item_name, search_param)
                                 \/ like(pg, t[i].specifications, search_param)
                                 \/ like(pg, t[i].reason, search_param) }
    IN [db |-> db,
        resp |-> [Resp(200, "") EXCEPT
                    !.counts = status_counts(t),
                    !.total = sum_values(status_counts(t)),
                    !.requests = [k \in 1..Cardinality(selected) |-> NthLargest(selected, k)]]]

StatKeys ==
    {"pending", "approved", "ordered", "received", "rejected", "completed", "in_progress"}

\* GET /api/stats
api_stats(db) ==
    [db |-> db,
     resp |-> [Resp(200, "") EXCEPT
                 !.total = RowCount(db.table),
                 !.counts = { <<k, counts_get(status_counts(db.table), k)>> : k \in StatKeys }]]

(***************************************************************************)
(* detect_environment, get_material_db_path, get_images_dir_path           *)
(***************************************************************************)
\* The signals the code reads: the four environment variables (TRUE when set
\* to a non-empty text), os.path.exists('C:\\Windows'), sys.frozen,
\* sys.platform == 'ios', 'iSH' in $SHELL, os.path.exists('/private/var/mobile').
Environments ==
    [RENDER : BOOLEAN, RAILWAY_ENVIRONMENT : BOOLEAN, RAILWAY_PROJECT_ID : BOOLEAN,
     PORT : BOOLEAN, windows : BOOLEAN, frozen : BOOLEAN,
     ios : BOOLEAN, ish : BOOLEAN, mobile : BOOLEAN]

Desktop ==
    [RENDER |-> FALSE, RAILWAY_ENVIRONMENT |-> FALSE, RAILWAY_PROJECT_ID |-> FALSE,
     PORT |-> FALSE, windows |-> TRUE, frozen |-> FALSE,
     ios |-> FALSE, ish |-> FALSE, mobile |-> FALSE]

detect_environment(e) ==
    IF e.RENDER \/ e.RAILWAY_ENVIRONMENT \/ e.RAILWAY_PROJECT_ID \/ (e.PORT /\ ~e.windows)
    THEN "cloud"
    ELSE IF e.RAILWAY_ENVIRONMENT THEN "railway"
    ELSE IF e.ios THEN "pythonista"
    ELSE IF e.ish THEN "ish"
    ELSE IF e.mobile THEN "a-shell"
    ELSE "desktop"

is_cloud_env(e) == detect_environment(e) \in {"render", "railway"}

\* Paths as tuples of their components.
NoPath == <<>>
AppDir == "dirname(__file__)"
OneDriveDir == <<"~", "OneDrive", "HPNT_Manager">>

get_material_db_path(e) ==
    IF is_cloud_env(e)
    THEN <<IF e.frozen THEN "dirname(sys.executable)" ELSE AppDir, "db", "material_rq.db">>
    ELSE OneDriveDir \o <<"db", "material_rq.db">>

get_images_dir_path(e) ==
    IF is_cloud_env(e)
    THEN <<AppDir, "db", "images">>
    ELSE OneDriveDir \o <<"images">>

(***************************************************************************)
(* _PgCursorAdapter and _PgConnectionAdapter                               *)
(***************************************************************************)
\* An optional argument: NoParams is params=None, Params(p) the tuple p.
NoParams == <<>>
Params(p) == <<p>>

\* A call of a method: its name, its query text (a tuple of characters) and
\* its optional parameters.
MethodCall(method, query, params) == [method |-> method, query |-> query, params |-> params]

NoCall == MethodCall("", <<>>, NoParams)

\* Replaces the first '?' only.
qmark_sub_first(query) ==
    IF \E i \in 1..Len(query) : query[i] = "?"
    THEN LET i == IndexOf(query, "?")
         IN SubSeq(query, 1, i - 1) \o <<"%", "s">> \o SubSeq(query, i + 1, Len(query))
    ELSE query

\* _qmark_pattern.sub('%s', query)
RECURSIVE qmark_sub(_)
qmark_sub(query) ==
    IF query = <<>> THEN <<>>
    ELSE (IF Head(query) = "?" THEN <<"%", "s">> ELSE <<Head(query)>>) \o qmark_sub(Tail(query))

\* What reaches the psycopg2 cursor from _PgCursorAdapter.execute(query, params).
PgCursorAdapter_execute(query, params) ==
    IF params = NoParams THEN MethodCall("execute", query, NoParams)
    ELSE MethodCall("execute", qmark_sub(query), params)

\* An executemany that hands the query on as it was given.
executemany_as_supplied(query, seq_of_params) ==
    MethodCall("executemany", query, seq_of_params)

\* What reaches the psycopg2 cursor from _PgCursorAdapter.executemany.
PgCursorAdapter_executemany(query, seq_of_params) ==
    MethodCall("executemany", qmark_sub(query), seq_of_params)

(***************************************************************************)
(* Inputs of the requests.                                                 *)
(***************************************************************************)
ReqIds == 1..(MaxRows + 1)

\* An id no row ever has within the bounds.
MissingId == MaxRows + MaxOps + 1

ValidDataUrl == <<DataImagePrefix, "png", ";", "base64", ",", "QUJD">>
NoCommaDataUrl == <<DataImagePrefix, "png", ";", "base64">>
BadPayloadDataUrl == <<DataImagePrefix, "png", ";", "base64", ",", "!">>

AddForm(n, q, v, d) ==
    [BlankReq EXCEPT !.item_name = n, !.quantity = q, !.vendor = v, !.image_data = d,
                     !.has_status = TRUE, !.status = "approved"]

\* Accepted forms (with an image that is saved, and with images whose saving
\* fails in each way), and forms that fail each validation while carrying a
\* vendor and a well-formed image.  Every form also submits a status field,
\* which add_page never reads.
AddRequests ==
    { AddForm(<<" ", "a">>, <<"1">>, <<"v", " ">>, ValidDataUrl),
      AddForm(<<"a">>, <<"1">>, <<>>, NoCommaDataUrl),
      AddForm(<<"a">>, <<"1">>, <<>>, BadPayloadDataUrl) }
    \cup { [AddForm(<<"a">>, <<"1">>, <<>>, ValidDataUrl) EXCEPT !.io_error = e] :
             e \in {"open", "write"} }
    \cup { AddForm(n, <<"1">>, <<"v", " ">>, ValidDataUrl) : n \in {<<>>, <<" ">>} }
    \cup { AddForm(<<" ", "a">>, q, <<"v", " ">>, ValidDataUrl) :
             q \in {<<"x">>, <<"0">>, <<"-", "1">>} }

EditBody(i, n, q) ==
    [BlankReq EXCEPT !.id = i, !.item_name = n, !.qty = q, !.specifications = <<"s">>]

EditRequests ==
    { EditBody(1, n, q) : n \in {<<" ">>, <<"b", " ">>}, q \in {0 - 1, 0, 1} }
    \cup { EditBody(MissingId, <<"b", " ">>, 1) }

UpdateBody(i, hs, st, hv, v) ==
    [BlankReq EXCEPT !.id = i, !.has_status = hs, !.status = st,
                     !.has_vendor = hv, !.vendor = v]

UpdateRequests ==
    { UpdateBody(i, TRUE, "received", TRUE, <<"v">>) : i \in {1, MissingId} }
    \cup { UpdateBody(1, TRUE, "pending", TRUE, <<>>),
           UpdateBody(1, TRUE, "bogus", FALSE, <<>>),
           UpdateBody(1, TRUE, NullStatus, FALSE, <<>>),
           UpdateBody(1, FALSE, "pending", TRUE, <<"v">>) }

PngType == <<"i", "m", "a", "g", "e", "/", "p", "n", "g">>
PngName == <<"p", ".", "P", "N", "G">>

Upload(i, f, z, c) ==
    [BlankReq EXCEPT !.id = i, !.has_file = TRUE, !.filename = f, !.size = z,
                     !.content_type = c]

UploadRequests ==
    { Upload(i, PngName, MaxUploadBytes, PngType) : i \in {1, MissingId} }
    \cup { Upload(1, PngName, z, PngType) : z \in {MaxUploadBytes + 1, 6 * 1024 * 1024} }
    \cup { Upload(1, PngName, MaxUploadBytes, <<"t", "e", "x", "t", "/", "p", "l", "a", "i", "n">>),
           Upload(1, <<>>, MaxUploadBytes, PngType),
           [BlankReq EXCEPT !.id = 1] }

Query(f, q) == [BlankReq EXCEPT !.status_filter = f, !.search = q]


IdRequests == { [BlankReq EXCEPT !.id = i] : i \in ReqIds }


(***************************************************************************)
(* The state machine.  Every request first runs the before_request hook,   *)
(* then its handler, as one step.                                          *)
(***************************************************************************)
Threads == 1..NumThreads

NoThread == 0

\* No thread is inside a request.
HookIdle ==
    /\ pc = [t \in Threads |-> "idle"]
    /\ lock = NoThread
    /\ started = 0
    /\ returned = 0
    /\ raised = 0
    /\ served = [t \in Threads |-> 0]

DbInit ==
    /\ USE_POSTGRES \in BOOLEAN
    /\ DB_INIT_DONE = FALSE
    /\ ddl = NoTable
    /\ table = <<>>
    /\ seq = 0
    /\ files = {}
    /\ now = 0
    /\ last = [op |-> "start", req |-> BlankReq, resp |-> Resp(0, ""), before |-> NoRow,
                missing |-> FALSE]
    /\ ops = 0

\* No delete is in flight and no concurrent write was made.
RenumberIdle ==
    /\ dpc = "idle"
    /\ request_id = 0
    /\ all_data = <<>>
    /\ written = {}

\* Nothing was resolved and the adapter was not called.
Unresolved ==
    /\ db_path = NoPath
    /\ images_dir = NoPath
    /\ given = NoCall
    /\ sent = NoCall

Init == DbInit /\ HookIdle /\ RenumberIdle /\ environ = Desktop /\ Unresolved

Hooked == ensure_db_initialized_once(Db, DB_INIT_DONE, USE_POSTGRES, now)

\* The images column of row id names a file that is not in the image
\* directory (os.path.exists is False).
FileMissing(db, id) == Truthy(StoredImage(db, id)) /\ StoredImage(db, id) \notin db.files

Serve(op, req, out) ==
    /\ ops' = ops + 1
    /\ table' = out.db.table
    /\ seq' = out.db.seq
    /\ files' = out.db.files
    /\ DB_INIT_DONE' = TRUE
    /\ ddl' = (IF ddl = NoTable THEN AppDdl ELSE ddl)
    /\ last' = [op |-> op, req |-> req, resp |-> out.resp,
                before |-> RowOrNone(Hooked.table, req.id),
                missing |-> FileMissing(Hooked, req.id)]
    /\ UNCHANGED <<USE_POSTGRES, now>>
    /\ UNCHANGED hookvars
    /\ UNCHANGED libvars
    /\ UNCHANGED renumvars

\* A direct call of a db_postgres function: no Flask request, so no hook.  It
\* talks to the PostgreSQL database and fails (returns False) while the table
\* has not been created; made is the CREATE TABLE statement the table comes
\* from after the call.
Call(op, req, out, made) ==
    /\ ops' = ops + 1
    /\ table' = (IF ddl # NoTable THEN out.db.table ELSE table)
    /\ seq' = (IF ddl # NoTable THEN out.db.seq ELSE seq)
    /\ files' = (IF ddl # NoTable THEN out.db.files ELSE files)
    /\ ddl' = (IF ddl # NoTable THEN made ELSE ddl)
    /\ last' = [op |-> op, req |-> req,
                resp |-> IF ddl # NoTable THEN out.resp ELSE Resp(ReturnedFalse, "no_table"),
                before |-> RowOrNone(table, req.id),
                missing |-> FileMissing(Db, req.id)]
    /\ UNCHANGED <<USE_POSTGRES, DB_INIT_DONE, now>>
    /\ UNCHANGED hookvars
    /\ UNCHANGED libvars
    /\ UNCHANGED renumvars

HasRoom == Cardinality(Ids(Hooked.table)) < MaxRows

AddPage ==
    \E req \in AddRequests :
        /\ ops < MaxOps
        /\ HasRoom
        /\ Serve("add", req, add_page(Hooked, USE_POSTGRES, now, req))

AdminEditMaterialInfo ==
    \E req \in EditRequests :
        /\ ops < MaxOps
        /\ Serve("edit", req, admin_edit_material_info(Hooked, req))

AdminUpdateRequest ==
    \E req \in UpdateRequests :
        /\ ops < MaxOps
        /\ Serve("update", req, admin_update_request(Hooked, req))

AdminEditImagePost ==
    \E req \in UploadRequests :
        /\ ops < MaxOps
        /\ Serve("image_post", req, admin_edit_image_post(Hooked, now, req))

AdminEditImageDelete ==
    \E req \in { [BlankReq EXCEPT !.id = i] : i \in {1, Len(sample_data(0)) + 1} } :
        /\ ops < MaxOps
        /\ Serve("image_delete", req, admin_edit_image_delete(Hooked, req))

AdminCopyRequest ==
    \E req \in IdRequests :
        /\ ops < MaxOps
        /\ HasRoom
        /\ Serve("copy", req, admin_copy_request(Hooked, USE_POSTGRES, now, req))

AdminDeleteRequest ==
    \E req \in IdRequests :
        /\ ops < MaxOps
        /\ Serve("delete", req, admin_delete_request(Hooked, USE_POSTGRES, req))

UpdateMaterialRequestStatus ==
    \E req \in { UpdateBody(1, TRUE, "pending", TRUE, <<>>),
                 UpdateBody(1, TRUE, "approved", TRUE, <<"v">>),
                 UpdateBody(MissingId, TRUE, "approved", TRUE, <<"v">>) } :
        /\ ops < MaxOps
        /\ USE_POSTGRES
        /\ Call("pg_update_status", req, update_material_request_status(Db, req), ddl)

DeleteMaterialRequest ==
    \E req \in { [BlankReq EXCEPT !.id = i] : i \in {1, MissingId} } :
        /\ ops < MaxOps
        /\ USE_POSTGRES
        /\ Call("pg_delete", req, delete_material_request(Db, req), ddl)

ReindexPostgresIds ==
    /\ ops < MaxOps
    /\ USE_POSTGRES
    /\ Call("pg_reindex", BlankReq, reindex_postgres_ids(Db),
            IF table = <<>> THEN ddl ELSE PgDdl)

\* Unfiltered, by status, by the two example texts, by a text in the other
\* case, and by a text made of a LIKE wildcard.
RequestsPage ==
    \E req \in { Query("all", <<>>), Query("received", <<>>),
                 Query("pending", <<"an", "jeon">>), Query("all", <<"jeon", "seon">>),
                 Query("all", <<"c", "e">>), Query("all", <<"_">>) } :
        /\ ops < MaxOps
        /\ Serve("list", req, requests_page(Hooked, USE_POSTGRES, req))

ApiStats ==
    /\ ops < MaxOps
    /\ Serve("stats", BlankReq, api_stats(Hooked))

AdminReindexIds ==
    /\ ops < MaxOps
    /\ Serve("reindex", BlankReq, admin_reindex_ids(Hooked, USE_POSTGRES))

\* db_postgres.init_postgres_database(): CREATE TABLE IF NOT EXISTS.
InitPostgresDatabase ==
    /\ ops < MaxOps
    /\ USE_POSTGRES
    /\ ops' = ops + 1
    /\ ddl' = (IF ddl = NoTable THEN PgDdl ELSE ddl)
    /\ last' = [op |-> "pg_init", req |-> BlankReq, resp |-> Resp(ReturnedTrue, ""),
                before |-> NoRow,
                missing |-> FALSE]
    /\ UNCHANGED <<USE_POSTGRES, DB_INIT_DONE, table, seq, files, now>>
    /\ UNCHANGED hookvars
    /\ UNCHANGED libvars
    /\ UNCHANGED renumvars

InsertSampleData ==
    /\ ops < MaxOps
    /\ USE_POSTGRES
    /\ Call("pg_insert_sample_data", BlankReq, insert_sample_data(Db, ddl, now), ddl)

ForceInitDb ==
    /\ ops < MaxOps
    /\ Serve("force_init", BlankReq, force_init_db(Hooked, USE_POSTGRES, now))

\* The clock advances between two requests; it counts as a step.
Tick ==
    /\ ops < MaxOps
    /\ now < MaxTime
    /\ now' = now + 1
    /\ ops' = ops + 1
    /\ last' = [op |-> "tick", req |-> BlankReq, resp |-> Resp(0, ""), before |-> NoRow,
                missing |-> FALSE]
    /\ UNCHANGED <<USE_POSTGRES, DB_INIT_DONE, ddl, table, seq, files>>
    /\ UNCHANGED hookvars
    /\ UNCHANGED libvars
    /\ UNCHANGED renumvars

\* A file leaves the image directory without the application: the directory
\* is a synced OneDrive folder, or the disk of a cloud host that is rebuilt
\* while the PostgreSQL database stays.  It counts as a step.
ImageFileLost ==
    \E f \in files :
        /\ ops < MaxOps
        /\ files' = RemoveFile(files, f)
        /\ ops' = ops + 1
        /\ last' = [op |-> "file_lost", req |-> BlankReq, resp |-> Resp(0, ""), before |-> NoRow,
                missing |-> FALSE]
        /\ UNCHANGED <<USE_POSTGRES, DB_INIT_DONE, ddl, table, seq, now>>
        /\ UNCHANGED hookvars
        /\ UNCHANGED libvars
        /\ UNCHANGED renumvars

Next ==
    \/ AddPage
    \/ AdminEditMaterialInfo
    \/ AdminUpdateRequest
    \/ UpdateMaterialRequestStatus
    \/ AdminEditImagePost
    \/ AdminEditImageDelete
    \/ AdminCopyRequest
    \/ AdminDeleteRequest
    \/ DeleteMaterialRequest
    \/ ReindexPostgresIds
    \/ InitPostgresDatabase
    \/ InsertSampleData
    \/ RequestsPage
    \/ ApiStats
    \/ AdminReindexIds
    \/ ForceInitDb
    \/ Tick
    \/ ImageFileLost

Spec == Init /\ [][Next]_vars

(***************************************************************************)
(* The before_request hook, statement by statement, with one thread per    *)
(* request in flight.  The handler that follows the hook is one step here. *)
(***************************************************************************)
lock_ignored(l) == TRUE

\* with _DB_INIT_LOCK: the lock can be taken when no thread holds it.
lock_free(l) == l = NoThread

DbKept ==
    /\ UNCHANGED <<USE_POSTGRES, DB_INIT_DONE, ddl, table, seq, files, now, last, ops>>
    /\ UNCHANGED renumvars
    /\ UNCHANGED libvars

\* A request arrives on thread t.
Begin(t) ==
    /\ pc[t] = "idle"
    /\ served[t] < MaxServed
    /\ pc' = [pc EXCEPT ![t] = "check"]
    /\ DbKept
    /\ UNCHANGED <<lock, started, returned, raised, served>>

\* if _DB_INIT_DONE: return
CheckFlag(t) ==
    /\ pc[t] = "check"
    /\ pc' = [pc EXCEPT ![t] = IF DB_INIT_DONE THEN "handler" ELSE "acquire"]
    /\ DbKept
    /\ UNCHANGED <<lock, started, returned, raised, served>>

\* with _DB_INIT_LOCK:
Acquire(t) ==
    /\ pc[t] = "acquire"
    /\ lock_free(lock)
    /\ lock' = t
    /\ pc' = [pc EXCEPT ![t] = "recheck"]
    /\ DbKept
    /\ UNCHANGED <<started, returned, raised, served>>

\* if _DB_INIT_DONE: return (inside the lock); otherwise the call of
\* init_material_database starts.
Recheck(t) ==
    /\ pc[t] = "recheck"
    /\ IF DB_INIT_DONE
       THEN /\ pc' = [pc EXCEPT ![t] = "handler"]
            /\ lock' = NoThread
            /\ UNCHANGED started
       ELSE /\ pc' = [pc EXCEPT ![t] = "init"]
            /\ started' = started + 1
            /\ UNCHANGED lock
    /\ DbKept
    /\ UNCHANGED <<returned, raised, served>>

\* init_material_database() returns.
InitReturns(t) ==
    /\ pc[t] = "init"
    /\ LET db == init_material_database(Db, USE_POSTGRES, now)
       IN /\ table' = db.table
          /\ seq' = db.seq
          /\ files' = db.files
    /\ ddl' = (IF ddl = NoTable THEN AppDdl ELSE ddl)
    /\ returned' = returned + 1
    /\ pc' = [pc EXCEPT ![t] = "set"]
    /\ UNCHANGED <<USE_POSTGRES, DB_INIT_DONE, now, last, ops>>
    /\ UNCHANGED <<lock, started, raised, served>>
    /\ UNCHANGED renumvars
    /\ UNCHANGED libvars

\* A hook that sets the flag in a finally clause: also when the call raises.
InitRaises_sets_flag(t) ==
    /\ pc[t] = "init"
    /\ raised < MaxRaises
    /\ raised' = raised + 1
    /\ DB_INIT_DONE' = TRUE
    /\ lock' = NoThread
    /\ pc' = [pc EXCEPT ![t] = "handler"]
    /\ UNCHANGED <<USE_POSTGRES, ddl, table, seq, files, now, last, ops>>
    /\ UNCHANGED <<started, returned, served>>
    /\ UNCHANGED renumvars
    /\ UNCHANGED libvars

\* init_material_database() raises (the database cannot be opened): the
\* except clause logs it, the flag is not set, the with block releases the
\* lock and the request goes on.
InitRaises(t) ==
    /\ pc[t] = "init"
    /\ raised < MaxRaises
    /\ raised' = raised + 1
    /\ lock' = NoThread
    /\ pc' = [pc EXCEPT ![t] = "handler"]
    /\ DbKept
    /\ UNCHANGED <<started, returned, served>>

\* _DB_INIT_DONE = True, and the with block releases the lock.
SetFlag(t) ==
    /\ pc[t] = "set"
    /\ DB_INIT_DONE' = TRUE
    /\ lock' = NoThread
    /\ pc' = [pc EXCEPT ![t] = "handler"]
    /\ UNCHANGED <<USE_POSTGRES, ddl, table, seq, files, now, last, ops>>
    /\ UNCHANGED <<started, returned, raised, served>>
    /\ UNCHANGED renumvars
    /\ UNCHANGED libvars

\* The view function runs and the request ends.
Handle(t) ==
    /\ pc[t] = "handler"
    /\ served' = [served EXCEPT ![t] = served[t] + 1]
    /\ pc' = [pc EXCEPT ![t] = "idle"]
    /\ DbKept
    /\ UNCHANGED <<lock, started, returned, raised>>

NextHook ==
    \/ \E t \in Threads : Begin(t)
    \/ \E t \in Threads : CheckFlag(t)
    \/ \E t \in Threads : Acquire(t)
    \/ \E t \in Threads : Recheck(t)
    \/ \E t \in Threads : InitReturns(t)
    \/ \E t \in Threads : InitRaises(t)
    \/ \E t \in Threads : SetFlag(t)
    \/ \E t \in Threads : Handle(t)

SpecHook == Init /\ [][NextHook]_vars

(***************************************************************************)
(* A DELETE /admin/delete/<id> statement by statement, next to one write   *)
(* of another request thread.  Each connection commits on its own: the row *)
(* removal is one transaction; the renumbering reads all rows outside any  *)
(* transaction (the sqlite3 module opens one only before a data-modifying  *)
(* statement) and then deletes all, reinserts and resets the sequence in   *)
(* one transaction, during which other writers wait for the lock.          *)
(***************************************************************************)
\* SELECT ... FROM material_requests ORDER BY id; fetchall()
read_all(t) == [k \in 1..Cardinality(Ids(t)) |-> t[NthId(t, k)]]

\* Writes back the rows read now instead of the rows fetched earlier.
rewrite_all_current(db, data) ==
    [db EXCEPT !.table = read_all(db.table), !.seq = Cardinality(Ids(db.table))]

\* DELETE FROM material_requests; INSERT of the fetched rows with ids 1..N;
\* sqlite_sequence = N (0 when nothing was fetched); commit.
rewrite_all(db, data) ==
    [db EXCEPT !.table = [i \in 1..Len(data) |-> data[i]], !.seq = Len(data)]

\* The first request of the process, served before any other thread runs.
FirstRequest ==
    /\ ~DB_INIT_DONE
    /\ table' = Hooked.table
    /\ seq' = Hooked.seq
    /\ files' = Hooked.files
    /\ DB_INIT_DONE' = TRUE
    /\ ddl' = AppDdl
    /\ UNCHANGED <<USE_POSTGRES, now, last, ops>>
    /\ UNCHANGED hookvars
    /\ UNCHANGED libvars
    /\ UNCHANGED renumvars

\* admin_delete_request up to its first commit; on PostgreSQL nothing is
\* renumbered and the handler is finished.
DeleteRemovesRow ==
    \E id \in Ids(table) :
        /\ DB_INIT_DONE
        /\ dpc = "idle"
        /\ table' = DeleteRow(Db, id).table
        /\ files' = (IF USE_POSTGRES /\ Truthy(StoredImage(Db, id))
                     THEN RemoveFile(files, StoredImage(Db, id)) ELSE files)
        /\ request_id' = id
        /\ last' = [last EXCEPT !.before = table[id]]
        /\ dpc' = (IF USE_POSTGRES THEN "done" ELSE "removed")
        /\ UNCHANGED <<USE_POSTGRES, DB_INIT_DONE, ddl, seq, now, ops>>
        /\ UNCHANGED hookvars
        /\ UNCHANGED libvars
        /\ UNCHANGED <<all_data, written>>

ReindexReadsAll ==
    /\ dpc = "removed"
    /\ all_data' = read_all(table)
    /\ dpc' = "read"
    /\ UNCHANGED <<USE_POSTGRES, DB_INIT_DONE, ddl, table, seq, files, now, last, ops>>
    /\ UNCHANGED hookvars
    /\ UNCHANGED libvars
    /\ UNCHANGED <<request_id, written>>

\* The rest of the renumbering, then the removal of the image file.
ReindexRewritesAll ==
    /\ dpc = "read"
    /\ table' = rewrite_all(Db, all_data).table
    /\ seq' = rewrite_all(Db, all_data).seq
    /\ files' = (IF Truthy(last.before.images)
                 THEN RemoveFile(files, last.before.images) ELSE files)
    /\ dpc' = "done"
    /\ UNCHANGED <<USE_POSTGRES, DB_INIT_DONE, ddl, now, last, ops>>
    /\ UNCHANGED hookvars
    /\ UNCHANGED libvars
    /\ UNCHANGED <<request_id, all_data, written>>

\* What is remembered of the concurrent write: where the delete was when it
\* committed, the answer it got, and the row it made or changed.
Write(kind, out, name, status) ==
    [kind |-> kind, phase |-> dpc, code |-> out.resp.code, new_id |-> out.resp.new_id,
     item_name |-> name, status |-> status]

Commit(out, w) ==
    /\ DB_INIT_DONE
    /\ written = {}
    /\ dpc # "done"
    /\ table' = out.db.table
    /\ seq' = out.db.seq
    /\ files' = out.db.files
    /\ written' = {w}
    /\ UNCHANGED <<USE_POSTGRES, DB_INIT_DONE, ddl, now, last, ops>>
    /\ UNCHANGED hookvars
    /\ UNCHANGED libvars
    /\ UNCHANGED <<dpc, request_id, all_data>>

ConcurrentCreate ==
    \E req \in AddRequests :
        LET out == add_page(Db, USE_POSTGRES, now, req)
        IN /\ out.resp.code = 302
           /\ Commit(out, Write("create", out, strip(req.item_name), "pending"))

ConcurrentUpdate ==
    \E req \in { UpdateBody(i, TRUE, "received", TRUE, <<"v">>) : i \in ReqIds } :
        LET out == admin_update_request(Db, req)
        IN Commit(out, Write("update", out, RowOrNone(table, req.id).item_name, req.status))

NextRenumber ==
    \/ FirstRequest
    \/ DeleteRemovesRow
    \/ ReindexReadsAll
    \/ ReindexRewritesAll
    \/ ConcurrentCreate
    \/ ConcurrentUpdate

SpecRenumber == Init /\ [][NextRenumber]_vars

(***************************************************************************)
(* The requests, the hook threads and the delete are at rest.              *)
(***************************************************************************)
AppKept ==
    /\ UNCHANGED <<USE_POSTGRES, DB_INIT_DONE, ddl, table, seq, files, now, last, ops>>
    /\ UNCHANGED hookvars
    /\ UNCHANGED renumvars

(***************************************************************************)
(* Resolving the storage locations in every environment.                   *)
(***************************************************************************)
InitPaths ==
    /\ DbInit /\ HookIdle /\ RenumberIdle
    /\ environ \in Environments
    /\ Unresolved

GetMaterialDbPath ==
    /\ db_path' = get_material_db_path(environ)
    /\ AppKept
    /\ UNCHANGED <<environ, images_dir, given, sent>>

GetImagesDirPath ==
    /\ images_dir' = get_images_dir_path(environ)
    /\ AppKept
    /\ UNCHANGED <<environ, db_path, given, sent>>

NextPaths ==
    \/ GetMaterialDbPath
    \/ GetImagesDirPath

SpecPaths == InitPaths /\ [][NextPaths]_vars

(***************************************************************************)
(* Calls of the storage adapter, which sqlite3.connect returns when        *)
(* DATABASE_URL is set.                                                    *)
(***************************************************************************)
\* Query texts of up to MaxQueryLen characters.
Queries == UNION { [1..n -> {"?", "%", "s", "a"}] : n \in 0..MaxQueryLen }

Adapted(call, reached) ==
    /\ USE_POSTGRES
    /\ given' = call
    /\ sent' = reached
    /\ AppKept
    /\ UNCHANGED <<environ, db_path, images_dir>>

Execute ==
    \E query \in Queries,
       params \in {Params(p) : p \in {<<>>, <<"v">>, <<"v", "w">>}} \cup {NoParams} :
        Adapted(MethodCall("execute", query, params), PgCursorAdapter_execute(query, params))

Executemany ==
    \E query \in Queries,
       seq_of_params \in {Params(p) : p \in {<<>>, <<<<"v">>>>, <<<<"v">>, <<"w">>>>}} :
        Adapted(MethodCall("executemany", query, seq_of_params),
                PgCursorAdapter_executemany(query, seq_of_params))

\* fetchone and fetchall call the same method of the cursor behind the
\* adapter, without arguments.
Fetch ==
    \E method \in {"fetchone", "fetchall"} :
        Adapted(MethodCall(method, <<>>, NoParams), MethodCall(method, <<>>, NoParams))

\* commit, rollback and close call the same method of the connection behind
\* the adapter, without arguments.
ConnectionCall ==
    \E method \in {"commit", "rollback", "close"} :
        Adapted(MethodCall(method, <<>>, NoParams), MethodCall(method, <<>>, NoParams))

NextAdapter ==
    \/ Execute
    \/ Executemany
    \/ Fetch
    \/ ConnectionCall

SpecAdapter == Init /\ [][NextAdapter]_vars

(***************************************************************************)
(* Properties.  A step that serves a request increments ops; Hooked is the *)
(* database the handler of that request sees (after the before_request     *)
(* hook), so "unchanged by the request" compares the next state to Hooked. *)
(***************************************************************************)
ServedAs(op) == ops' = ops + 1 /\ last'.op = op

Unwritten == table' = Hooked.table /\ seq' = Hooked.seq /\ files' = Hooked.files

OthersKept == \A i \in Ids(Hooked.table) : i \in Ids(table') /\ table'[i] = Hooked.table[i]

Dense(t) == Ids(t) = 1..Cardinality(Ids(t))

DeleteDone == last.op = "delete" /\ last.resp.code = 200

\* A text with at least one character that is not a blank.
NameGiven(n) == \E i \in 1..Len(n) : n[i] # " "

Blanks(k) == [i \in 1..k |-> " "]

\* s is raw without its leading and trailing blanks.
IsTrimOf(s, raw) ==
    /\ s = <<>> \/ (Head(s) # " " /\ s[Len(s)] # " ")
    /\ \E i \in 0..Len(raw) : \E j \in 0..Len(raw) : raw = Blanks(i) \o s \o Blanks(j)

ZeroOrNegativeTexts == {<<"0">>, <<"-", "1">>}
NonNumericTexts == {<<"x">>}
OneText == <<"1">>

\* C1 as stated: on either backend, right after a successful delete the ids
\* are exactly 1..N, N the row count.
C1_DenseAfterDeleteAnyBackend == DeleteDone => Dense(table)

\* C1 amended: on the SQLite backend, right after a successful delete the ids
\* are exactly 1..N, N the row count.
C1_DenseAfterDelete == (DeleteDone /\ ~USE_POSTGRES) => Dense(table)

C1_Witness ==
    /\ DeleteDone
    /\ ~USE_POSTGRES
    /\ Cardinality(Ids(table)) >= 2
    /\ last.req.id <= Cardinality(Ids(table))

\* The quantity rule of create and update_fields for a name that satisfies
\* named(_): quantity 0 or negative gives the validation error and writes
\* nothing, quantity 1 succeeds (update_fields: when the id exists).
QuantityRule(named(_)) ==
    LET r == last'.req
    IN /\ (ServedAs("add") /\ named(r.item_name) /\ r.quantity \in ZeroOrNegativeTexts)
            => (last'.resp.code = 200 /\ last'.resp.error = "quantity_below_1" /\ Unwritten)
       /\ (ServedAs("add") /\ named(r.item_name) /\ r.quantity = OneText)
            => last'.resp.code = 302
       /\ (ServedAs("edit") /\ named(r.item_name) /\ r.qty <= 0)
            => (last'.resp.code = 400 /\ last'.resp.error = "quantity_below_1" /\ Unwritten)
       /\ (ServedAs("edit") /\ named(r.item_name) /\ r.qty = 1 /\ r.id \in Ids(Hooked.table))
            => last'.resp.code = 200

NonEmpty(n) == n # <<>>

\* C2 as stated: with a non-empty name, create and update_fields fail with a
\* validation error and write nothing for quantity 0 or negative, and succeed
\* for quantity 1.
C2_QuantityNonEmptyName == [][QuantityRule(NonEmpty)]_vars

\* C2 amended: the same for a name that is non-empty after its leading and
\* trailing blanks are removed.
C2_QuantityValidation == [][QuantityRule(NameGiven)]_vars

C2_Witness ==
    /\ last.op = "add"
    /\ NameGiven(last.req.item_name)
    /\ last.req.quantity = <<"0">>
    /\ last.resp.error = "quantity_below_1"

\* What add does: every inserted row is pending with a vendor accepted by
\* vendorOk(stored, submitted); a valid form inserts exactly one row dated
\* today, leaves the other rows alone and is answered by the redirect.
AddRule(vendorOk(_, _)) ==
    LET r == last'.req
        new == Ids(table') \ Ids(Hooked.table)
    IN ServedAs("add") =>
        /\ last'.resp.code = 302 =>
              /\ Cardinality(new) = 1
              /\ OthersKept
              /\ \A y \in new : /\ table'[y].status = "pending"
                                /\ vendorOk(table'[y].vendor, r.vendor)
                                /\ table'[y].request_date = now \div TicksPerDay
        /\ (NameGiven(r.item_name) /\ r.quantity = OneText) => last'.resp.code = 302

VendorEmpty(stored, submitted) == stored = <<>>

\* C3 as stated: every row inserted by add is pending with an empty vendor,
\* whatever the form submitted; a valid form inserts exactly one row with
\* request_date today and redirects.
C3_AddForcesEmptyVendor == [][AddRule(VendorEmpty)]_vars

\* C3 amended: every row inserted by add is pending, whatever status the form
\* submitted, and its vendor is the submitted vendor without leading and
\* trailing blanks (empty when none was submitted); a valid form inserts
\* exactly one row with request_date today and redirects.
C3_AddRow == [][AddRule(IsTrimOf)]_vars

C3_Witness ==
    /\ last.op = "add"
    /\ last.resp.code = 302
    /\ last.req.status = "approved"
    /\ last.req.vendor = <<"v", " ">>
    /\ seq \in Ids(table)
    /\ table[seq].vendor = <<"v">>
    /\ table[seq].status = "pending"

\* C4: a rejected create (blank name, non-numeric quantity or quantity < 1)
\* inserts no row and writes no image file, also when the form carried a
\* well-formed data-URL image.
C4_RejectedAddWritesNothing ==
    [][LET r == last'.req
       IN (ServedAs("add") /\ (~NameGiven(r.item_name)
                               \/ r.quantity \in ZeroOrNegativeTexts \cup NonNumericTexts))
            => (last'.resp.code = 200 /\ last'.resp.error # "" /\ Unwritten)]_vars

C4_Witness ==
    /\ last.op = "add"
    /\ last.resp.error = "quantity_not_numeric"
    /\ last.req.image_data = ValidDataUrl
    /\ DB_INIT_DONE

\* The rows a served request added to the database its handler saw.
NewIds == Ids(table') \ Ids(Hooked.table)

\* C5: a copy of an existing id X inserts exactly one new row, with an id Y
\* that no row had, whose item_name, specifications, quantity, urgency, reason
\* and images equal those of X, which is pending with an empty vendor; the
\* other rows are left alone and the returned new_id is Y.
C5_CopyReturnsNewId ==
    [][LET x == last'.req.id
       IN (ServedAs("copy") /\ x \in Ids(Hooked.table)) =>
            /\ last'.resp.code = 200
            /\ Cardinality(NewIds) = 1
            /\ OthersKept
            /\ \A y \in NewIds :
                  /\ y # x
                  /\ table'[y].item_name = Hooked.table[x].item_name
                  /\ table'[y].specifications = Hooked.table[x].specifications
                  /\ table'[y].quantity = Hooked.table[x].quantity
                  /\ table'[y].urgency = Hooked.table[x].urgency
                  /\ table'[y].reason = Hooked.table[x].reason
                  /\ table'[y].images = Hooked.table[x].images
                  /\ table'[y].status = "pending"
                  /\ table'[y].vendor = <<>>
                  /\ last'.resp.new_id = y]_vars

\* C6: a successful delete of a row, and a successful clearing or replacement
\* of a row's image, removes no file that a row still references afterwards.
C6_SharedFileKept ==
    [][(ops' = ops + 1 /\ last'.op \in {"delete", "image_delete", "image_post"}
          /\ last'.resp.code = 200)
         => \A f \in Hooked.files \ files' :
              \A i \in Ids(table') : table'[i].images # f]_vars

\* C7: every row whose images column holds a file name (is neither NULL nor
\* the empty text) names a file that exists in the image directory.
C7_ImagePointer ==
    \A i \in Ids(table) : Truthy(table[i].images) => table[i].images \in files

\* The image file rule of a successful upload to a row X that already had an
\* image: the old file is gone when gone(old, new), a file with the returned
\* name exists, and X's images column is the returned name.
ReplaceRule(gone(_, _)) ==
    LET x == last'.req.id
        new == last'.resp.filename
    IN (ServedAs("image_post") /\ last'.resp.code = 200
          /\ x \in Ids(Hooked.table) /\ Truthy(Hooked.table[x].images))
         => /\ gone(Hooked.table[x].images, new) => Hooked.table[x].images \notin files'
            /\ new \in files'
            /\ x \in Ids(table') /\ table'[x].images = new

Always(old, new) == TRUE

Renamed(old, new) == old # new

\* C8 as stated: after a successful upload to a row that already had an
\* image, the file the row named before no longer exists, a file with the
\* returned name exists and the row names the returned file.
C8_OldFileAlwaysGone == [][ReplaceRule(Always)]_vars

\* C8 amended: the same, except that the file the row named before still
\* exists (overwritten by the upload) when the returned name equals the old
\* name, which happens for a second upload to the row within the same second
\* with the same extension.
C8_ImageReplaced == [][ReplaceRule(Renamed)]_vars

C8_Witness ==
    /\ last.op = "image_post"
    /\ last.resp.code = 200
    /\ Truthy(last.before.images)
    /\ last.before.images # last.resp.filename
    /\ last.before.images \notin files
    /\ last.req.id \in Ids(table)
    /\ table[last.req.id].images = last.resp.filename

FiveMiB == 5 * 1024 * 1024

ImageSlash == <<"i", "m", "a", "g", "e", "/">>

\* C9: an upload larger than 5 MiB, or whose MIME type does not start with
\* image/, is answered 400 and nothing is written (no row, no file changes);
\* an upload of exactly 5 MiB with an image MIME type is accepted.
C9_UploadLimits ==
    [][LET r == last'.req
       IN ServedAs("image_post") =>
            /\ (r.has_file /\ (r.size > FiveMiB \/ ~startswith(r.content_type, ImageSlash)))
                  => (last'.resp.code = 400 /\ Unwritten)
            /\ (r.has_file /\ r.filename # <<>> /\ r.size = FiveMiB
                   /\ startswith(r.content_type, ImageSlash))
                  => (last'.resp.code = 200 /\ last'.resp.filename \in files')]_vars

C9_Witness ==
    /\ last.op = "image_post"
    /\ last.req.size > FiveMiB
    /\ last.resp.code = 400
    /\ last.req.id \in Ids(table)
    /\ Truthy(table[last.req.id].images)
    /\ table[last.req.id].images \in files

\* C10: an update of status and vendor on an id the table holds, through the
\* HTTP handler or through db_postgres.update_material_request_status, leaves
\* the row with exactly the supplied status and the supplied vendor.
C10_StatusVendorOverwritten ==
    [][LET r == last'.req
       IN (ops' = ops + 1 /\ last'.op \in {"update", "pg_update_status"}
             /\ r.has_status /\ r.has_vendor /\ r.id \in Ids(table'))
            => (table'[r.id].status = r.status /\ table'[r.id].vendor = r.vendor)]_vars

\* The request just served went through a Flask handler (after the hook) or
\* was a direct call of a db_postgres function on the created table.
Handled(opnames) == ops' = ops + 1 /\ last'.op \in opnames

Called(opnames) == ops' = ops + 1 /\ last'.op \in opnames /\ ddl # NoTable

\* C11: update_status, update_fields with valid input, copy and delete (the
\* HTTP handlers and db_postgres.delete_material_request) called with an id
\* that matches no row answer not-found (404) and leave the table, the
\* counter and the image directory unchanged.
C11_NotFound ==
    [][LET r == last'.req
       IN /\ (Handled({"update", "copy", "delete"}) /\ r.id \notin Ids(Hooked.table))
               => (last'.resp.code = 404 /\ Unwritten)
          /\ (Handled({"edit"}) /\ r.id \notin Ids(Hooked.table)
                 /\ NameGiven(r.item_name) /\ r.qty >= 1)
               => (last'.resp.code = 404 /\ Unwritten)
          /\ (Called({"pg_delete"}) /\ r.id \notin Ids(table))
               => (last'.resp.code = 404 /\ UNCHANGED <<table, seq, files>>)]_vars

\* Every row of old other than x is in new with all its fields, under its old
\* id when that is below x and under its old id minus one when above.
ShiftedDown(old, new, x) ==
    /\ Ids(new) = 1..(Cardinality(Ids(old)) - 1)
    /\ \A i \in Ids(old) \ {x} : new[IF i < x THEN i ELSE i - 1] = old[i]

\* Every row of old other than x is in new under its old id with all its
\* fields, and new has no other row.
KeptInPlace(old, new, x) ==
    /\ Ids(new) = Ids(old) \ {x}
    /\ \A i \in Ids(new) : new[i] = old[i]

\* The rows of new are the rows of old, numbered 1..N in the order of their
\* old ids.
Renumbered(old, new) ==
    /\ Ids(new) = 1..Cardinality(Ids(old))
    /\ \A k \in Ids(new) : new[k] = old[NthId(old, k)]

DeleteFromDense ==
    /\ ServedAs("delete")
    /\ last'.resp.code = 200
    /\ Dense(Hooked.table)

C13_CounterIsRowCount ==
    [][~USE_POSTGRES =>
         /\ (Handled({"delete", "reindex"}) /\ last'.resp.code = 200)
               => (seq' = RowCount(table') /\ NextId([Db EXCEPT !.table = table', !.seq = seq'],
                                                    USE_POSTGRES) = RowCount(table') + 1)
         /\ (Handled({"add", "copy"}) /\ NewIds # {})
               => NewIds = {RowCount(Hooked.table) + 1}
         /\ Handled({"add", "copy", "delete"}) => Dense(table')]_vars

\* A create on the file-based backend that was given the id of a row deleted
\* before it: the table holds as many rows as were seeded.
C13_Witness ==
    /\ ~USE_POSTGRES
    /\ last.op = "add"
    /\ last.resp.code = 302
    /\ RowCount(table) = Len(sample_data(0))
    /\ seq = RowCount(table)
    /\ Dense(table)

\* The response of GET /requests without a status filter and a search text,
\* served in the current state.
UnfilteredPage == requests_page(Db, USE_POSTGRES, Query("all", <<>>)).resp

\* C14: in every state the per-status counts of the list page add up to the
\* number of rows the unfiltered list returns, which is the number of rows of
\* the table, also when rows carry an unrecognized or a null status.
C14_StatusCountsSum ==
    /\ sum_values(UnfilteredPage.counts) = Len(UnfilteredPage.requests)
    /\ UnfilteredPage.total = Len(UnfilteredPage.requests)
    /\ Len(UnfilteredPage.requests) = RowCount(table)

C14_Witness ==
    /\ last.op = "list"
    /\ last.req = Query("all", <<>>)
    /\ \E i \in Ids(table) : table[i].status = NullStatus
    /\ \E i \in Ids(table) : table[i].status = "pending"
    /\ last.resp.total = Len(last.resp.requests)
    /\ last.resp.total = RowCount(table)

\* C15: the total of GET /api/stats is the sum of the per-status counts of the
\* same response.
C15_StatsTotalIsSum ==
    (last.op = "stats" /\ last.resp.code = 200)
        => last.resp.total = sum_values(last.resp.counts)

\* q occurs in text as a run of consecutive characters, the case of letters
\* ignored.
ContainsIgnoringCase(text, q) ==
    \E off \in 0..(Len(text) - Len(q)) :
        \A k \in 1..Len(q) : ascii_lower(text[off + k]) = ascii_lower(q[k])

\* The ids the list is to return for a status filter f and a search text q.
Matching(t, f, q) ==
    { i \in Ids(t) :
        /\ f = "all" \/ t[i].status = f
        /\ \/ q = <<>>
           \/ ContainsIgnoringCase(t[i].item_name, q)
           \/ ContainsIgnoringCase(t[i].specifications, q)
           \/ ContainsIgnoringCase(t[i].reason, q) }

\* C16: the list page returns exactly the rows that pass the status filter
\* and contain the search text (case ignored) in item_name, specifications or
\* reason, in strictly descending id order.
C16_ListFilters ==
    last.op = "list" =>
        LET ids == last.resp.requests
        IN /\ \A k \in 1..(Len(ids) - 1) : ids[k] > ids[k + 1]
           /\ {ids[k] : k \in 1..Len(ids)}
                 = Matching(table, last.req.status_filter, last.req.search)

\* The rows of t, in the order of their ids, are exactly the rows of samples.
HoldsExactly(t, samples) ==
    /\ RowCount(t) = Len(samples)
    /\ \A k \in 1..Len(samples) : t[NthId(t, k)] = samples[k]

DbNext == [table |-> table', seq |-> seq', files |-> files']

InInit == {t \in Threads : pc[t] = "init"}

\* C18 as stated: the hook starts schema initialization at most once, no two
\* threads execute init_material_database at the same time, and a thread
\* that reaches its handler does so after a run was started.
C18_InitStartedOnce ==
    /\ Cardinality(InInit) <= 1
    /\ started <= 1
    /\ \A t \in Threads : pc[t] = "handler" => started >= 1

\* C18 amended: no two threads execute init_material_database in the hook at
\* the same time, at most one run returns without raising, once the flag is
\* set no run is in progress and exactly one has returned, every later run
\* follows a run that raised, and a thread that reaches its handler does so
\* after a run was started.
C18_HookInitOnce ==
    /\ Cardinality(InInit) <= 1
    /\ returned <= 1
    /\ DB_INIT_DONE => (returned = 1 /\ InInit = {})
    /\ started <= raised + 1
    /\ \A t \in Threads : pc[t] = "handler" => started >= 1

\* One thread executes init_material_database while another, which also saw
\* the flag unset, waits for the lock.
C18_Witness ==
    \E t \in Threads : \E u \in Threads :
        /\ pc[t] = "init"
        /\ lock = t
        /\ pc[u] = "acquire"


(***************************************************************************)
(* C19: the renumbering under a concurrent writer.                         *)
(***************************************************************************)
RowsNamed(t, n) == { i \in Ids(t) : t[i].item_name = n }

\* The write was answered as a success.
Succeeded(w) == (w.kind = "create" /\ w.code = 302) \/ (w.kind = "update" /\ w.code = 200)

\* The table shows the write, unless the written row is the one the delete
\* removed: the created row is there, the updated row has the written status.
Shown(w) ==
    \/ w.item_name = last.before.item_name
    \/ /\ RowsNamed(table, w.item_name) # {}
       /\ w.kind = "update" => \A i \in RowsNamed(table, w.item_name) : table[i].status = w.status

\* The table shows nothing of the write: no created row, and the updated row
\* is there with another status.
Lost(w) ==
    IF w.kind = "create" THEN RowsNamed(table, w.item_name) = {}
    ELSE /\ RowsNamed(table, w.item_name) # {}
         /\ \A i \in RowsNamed(table, w.item_name) : table[i].status # w.status

\* C19: renumber_ids is not safe under concurrent writers.  On the file
\* backend, when the delete has finished, a successful create or update that
\* committed between the renumbering's read-all and its delete-all is lost,
\* a create that committed between the row removal and the read-all was
\* answered with an id that no row has any more, and every write that
\* committed before the read-all is shown in the table.
C19_ConcurrentWriteLost ==
    (dpc = "done" /\ ~USE_POSTGRES) =>
        \A w \in written :
            Succeeded(w) =>
                /\ (w.phase = "read") => Lost(w)
                /\ (w.phase \in {"idle", "removed"}) => Shown(w)
                /\ (w.phase = "removed" /\ w.kind = "create") => w.new_id \notin Ids(table)
                /\ Dense(table) /\ seq = RowCount(table)

\* A finished delete whose renumbering has lost a create that was answered
\* with a redirect.
C19_Witness ==
    /\ dpc = "done"
    /\ ~USE_POSTGRES
    /\ \E w \in written :
        /\ w.kind = "create"
        /\ w.code = 302
        /\ w.phase = "read"
        /\ RowsNamed(table, w.item_name) = {}
        /\ RowCount(table) = 2

\* A finished delete whose renumbering has lost an update.
C19_LostUpdate ==
    /\ dpc = "done"
    /\ \E w \in written :
        /\ w.kind = "update" /\ w.code = 200 /\ w.phase = "read"
        /\ \A i \in Ids(table) : table[i].status = "pending"

(***************************************************************************)
(* C20: created_at.                                                        *)
(***************************************************************************)
\* The position of id i among the ids S in ascending order.
RankIn(S, i) == Cardinality({ k \in S : k <= i })

\* Every row of old is in new under the same id with the same created_at.
CreatedAtKeptInPlace(old, new) ==
    /\ Ids(new) = Ids(old)
    /\ \A i \in Ids(old) : new[i].created_at = old[i].created_at

\* Every row of old with an id in S is in new, under its rank in S when the
\* ids were renumbered and under its old id otherwise, with the same
\* created_at.
CreatedAtKeptIn(old, new, S, renumbered) ==
    \A i \in S :
        LET j == IF renumbered THEN RankIn(S, i) ELSE i
        IN /\ j \in Ids(new)
           /\ new[j].created_at = old[i].created_at
           /\ new[j].item_name = old[i].item_name

\* C20: created_at is immutable.  A step of update_status (the handler or the
\* db_postgres function), update_fields, image upload or image clear leaves
\* every row under its id with its created_at; a delete leaves every other
\* row with its created_at, under its rank among the remaining ids on the
\* file backend and under its id on PostgreSQL; a manual reindex does the
\* same for all rows; db_postgres.reindex_postgres_ids leaves the k-th row
\* in (created_at, id) order as row k with its created_at.
C20_CreatedAtImmutable ==
    [][/\ Handled({"update", "edit", "image_post", "image_delete"})
            => CreatedAtKeptInPlace(Hooked.table, table')
       /\ Called({"pg_update_status"}) => CreatedAtKeptInPlace(table, table')
       /\ (Handled({"delete"}) /\ last'.resp.code = 200)
            => CreatedAtKeptIn(Hooked.table, table',
                               Ids(Hooked.table) \ {last'.req.id}, ~USE_POSTGRES)
       /\ Called({"pg_delete"})
            => CreatedAtKeptIn(table, table', Ids(table) \ {last'.req.id}, FALSE)
       /\ Handled({"reindex"})
            => CreatedAtKeptIn(Hooked.table, table', Ids(Hooked.table), ~USE_POSTGRES)
       /\ Called({"pg_reindex"})
            => \A k \in 1..RowCount(table) :
                   /\ k \in Ids(table')
                   /\ table'[k].created_at = table[NthCreated(table, k)].created_at
                   /\ table'[k].item_name = table[NthCreated(table, k)].item_name]_vars

\* A delete on the file backend has renumbered the rows at a later time than
\* the one they were created at, and the row that moved to id 1 has the
\* created_at it was created with.
C20_Witness ==
    /\ last.op = "delete"
    /\ last.resp.code = 200
    /\ last.req.id = 1
    /\ ~USE_POSTGRES
    /\ 1 \in Ids(table)
    /\ table[1].created_at < now

(***************************************************************************)
(* C21: a create whose image cannot be saved.                              *)
(***************************************************************************)
\* The form passes the checks of add_page and carries a data-URL image whose
\* saving fails: no comma after the header, a payload that base64 cannot
\* decode, or an error of the file system.
ImageSaveFails(r) ==
    /\ NameGiven(r.item_name)
    /\ r.quantity = OneText
    /\ \/ r.image_data \in {NoCommaDataUrl, BadPayloadDataUrl}
       \/ (r.image_data = ValidDataUrl /\ r.io_error \in {"open", "write"})

\* C21: a create whose data-URL image cannot be saved (malformed header,
\* undecodable base64 or file write error) is answered as a success (the
\* redirect) and inserts exactly one new row, with the fields of the form,
\* status 'pending' and images null; the other rows are left alone.
C21_ImageFailureKeepsRow ==
    [][LET r == last'.req
       IN (ServedAs("add") /\ ImageSaveFails(r)) =>
            /\ last'.resp.code = 302
            /\ last'.resp.error = ""
            /\ Cardinality(NewIds) = 1
            /\ OthersKept
            /\ \A y \in NewIds :
                 /\ table'[y].images = NULL
                 /\ table'[y].item_name = strip(r.item_name)
                 /\ table'[y].status = "pending"]_vars

\* A create whose image file could not be written has inserted its row with
\* images null.
C21_Witness ==
    /\ last.op = "add"
    /\ last.req.io_error = "write"
    /\ last.resp.code = 302
    /\ \E y \in Ids(table) : table[y].images = NULL /\ table[y].item_name = <<"a">>

(***************************************************************************)
(* C22: the storage locations.                                             *)
(***************************************************************************)
\* A cloud-hosting marker is present: RENDER, RAILWAY_ENVIRONMENT,
\* RAILWAY_PROJECT_ID, or PORT on a host without C:\Windows.
CloudMarker(e) ==
    e.RENDER \/ e.RAILWAY_ENVIRONMENT \/ e.RAILWAY_PROJECT_ID \/ (e.PORT /\ ~e.windows)

UnderAppDir(path) == path # NoPath /\ Head(path) \in {AppDir, "dirname(sys.executable)"}

UnderOneDrive(path) ==
    Len(path) > Len(OneDriveDir) /\ SubSeq(path, 1, Len(OneDriveDir)) = OneDriveDir

FollowsPolicy(path) ==
    IF CloudMarker(environ) THEN UnderAppDir(path) ELSE UnderOneDrive(path)

\* C22: the database location and the image directory, once resolved, are
\* under the application's own directory when a cloud-hosting marker is
\* present and under the OneDrive folder otherwise.
C22_LocationsFollowEnvironment ==
    /\ (db_path # NoPath) => FollowsPolicy(db_path)
    /\ (images_dir # NoPath) => FollowsPolicy(images_dir)

(***************************************************************************)
(* C23, C24: the storage adapter.                                          *)
(***************************************************************************)
\* The number of '?' among the first n characters of q.
RECURSIVE CountQmarks(_, _)
CountQmarks(q, n) ==
    IF n = 0 THEN 0 ELSE CountQmarks(q, n - 1) + (IF q[n] = "?" THEN 1 ELSE 0)

\* c is q with every '?' replaced by '%s' and nothing else changed: each
\* character of q is found in c moved right by the number of '?' before it,
\* a '?' as the two characters '%' and 's'.
PlaceholdersReplaced(q, c) ==
    /\ Len(c) = Len(q) + CountQmarks(q, Len(q))
    /\ \A i \in 1..Len(q) :
         LET j == i + CountQmarks(q, i - 1)
         IN IF q[i] = "?" THEN c[j] = "%" /\ c[j + 1] = "s" ELSE c[j] = q[i]

\* C23: execute without params hands the query text to the backend cursor
\* unchanged, also when it contains '?'; execute with params hands over the
\* text with every '?' replaced by '%s' and nothing else changed, and the
\* params unchanged.
C23_ExecuteConvertsPlaceholders ==
    (given.method = "execute") =>
        /\ sent.method = "execute"
        /\ sent.params = given.params
        /\ IF given.params = NoParams THEN sent.query = given.query
           ELSE PlaceholdersReplaced(given.query, sent.query)

\* An execute with params of a query with two placeholders.
C23_Witness ==
    /\ given = MethodCall("execute", <<"?", "a", "?">>, Params(<<"v", "w">>))
    /\ sent = MethodCall("execute", <<"%", "s", "a", "%", "s">>, Params(<<"v", "w">>))

PassThrough == {"executemany", "fetchone", "fetchall", "commit", "rollback", "close"}

\* C24 as stated: executemany, fetchone, fetchall, commit, rollback and close
\* reach the backend object with the arguments they were given; the query
\* text of executemany reaches it exactly as supplied.
C24_PassThroughUnchanged ==
    (given.method \in PassThrough) => sent = given

\* C24 amended: fetchone, fetchall, commit, rollback and close reach the
\* backend object as they were given; executemany reaches it with its
\* sequence of parameters unchanged and with every '?' of its query text
\* replaced by '%s', so only a text without '?' arrives as supplied.
C24_ExecutemanyConverts ==
    /\ (given.method \in PassThrough \ {"executemany"}) => sent = given
    /\ (given.method = "executemany") =>
         /\ sent.method = "executemany"
         /\ sent.params = given.params
         /\ PlaceholdersReplaced(given.query, sent.query)
         /\ (CountQmarks(given.query, Len(given.query)) = 0) => sent.query = given.query

\* An executemany of a query with a placeholder, which reached the backend
\* with another text.
C24_Witness ==
    /\ given.method = "executemany"
    /\ given.query = <<"a", "?">>
    /\ given.params = Params(<<<<"v">>, <<"w">>>>)
    /\ sent.query = <<"a", "%", "s">>
    /\ sent.params = given.params

(***************************************************************************)
(* C25: removing an image file that is not there.                          *)
(***************************************************************************)
\* The request is addressed to a row whose images column names a file that
\* is not in the image directory.
OnMissingFile(op) == ServedAs(op) /\ FileMissing(Hooked, last'.req.id)

\* C25: clearing the image of a row, or deleting a row, whose images column
\* names a file that is not on disk succeeds and leaves the image directory
\* as it was; after the clear the row is as before with images null and the
\* other rows are untouched, after the delete the row is gone and the other
\* rows are kept (renumbered on the file backend).
C25_AbsentFileIsSuccess ==
    [][LET x == last'.req.id
       IN /\ OnMissingFile("image_delete") =>
               /\ last'.resp.code = 200
               /\ files' = Hooked.files
               /\ table' = [Hooked.table EXCEPT ![x].images = NULL]
          /\ OnMissingFile("delete") =>
               /\ last'.resp.code = 200
               /\ files' = Hooked.files
               /\ IF USE_POSTGRES THEN KeptInPlace(Hooked.table, table', x)
                  ELSE Renumbered(DeleteRow(Hooked, x).table, table')]_vars

\* The image of a row was cleared although its file was not on disk.
C25_Witness ==
    /\ last.op = "image_delete"
    /\ last.missing
    /\ last.resp.code = 200
    /\ last.req.id \in Ids(table)
    /\ table[last.req.id].images = NULL

\* A row was deleted although its image file was not on disk.
C25_DeleteWitness ==
    /\ last.op = "delete"
    /\ last.missing
    /\ last.resp.code = 200

(***************************************************************************)
(* C26: what the two updates leave alone.                                  *)
(***************************************************************************)
\* Outside row x nothing changed: the same ids, every other row, the counter
\* and the image directory are as the handler found them.
OnlyRowChanged(x) ==
    /\ Ids(table') = Ids(Hooked.table)
    /\ \A i \in Ids(Hooked.table) \ {x} : table'[i] = Hooked.table[i]
    /\ seq' = Hooked.seq
    /\ files' = Hooked.files

\* C26: update_status changes only the status and vendor of the addressed
\* row, update_fields only its item_name, quantity, specifications and
\* reason; urgency, request_date, images and created_at of that row, every
\* other row, the ids and the row count, and the image directory are left
\* unchanged (an update that is not answered with success changes nothing).
C26_UpdateFrame ==
    [][LET x == last'.req.id
           old == Hooked.table
       IN /\ (Handled({"update"}) /\ last'.resp.code = 200) =>
               /\ OnlyRowChanged(x)
               /\ table'[x] = [old[x] EXCEPT !.status = table'[x].status,
                                             !.vendor = table'[x].vendor]
          /\ (Handled({"edit"}) /\ last'.resp.code = 200) =>
               /\ OnlyRowChanged(x)
               /\ table'[x] = [old[x] EXCEPT !.item_name = table'[x].item_name,
                                             !.quantity = table'[x].quantity,
                                             !.specifications = table'[x].specifications,
                                             !.reason = table'[x].reason]
          /\ (Handled({"update", "edit"}) /\ last'.resp.code # 200) => Unwritten]_vars

\* An update_fields has renamed the urgent sample row 1, which is still
\* urgent, next to its two untouched neighbours.
C26_Witness ==
    /\ last.op = "edit"
    /\ last.resp.code = 200
    /\ last.req.id = 1
    /\ table[1].item_name = <<"b">>
    /\ table[1].urgency = "high"
    /\ table[1].status = "pending"
    /\ RowCount(table) = 3

(***************************************************************************)
(* C27: an update_status body that omits a field.                          *)
(***************************************************************************)
\* C27: an update_status of an existing row whose body omits status sets the
\* status of the row to 'pending', and one whose body omits vendor sets its
\* vendor to the empty text, whatever the row held; a field the body gives
\* is stored as given.
C27_OmittedFieldsReset ==
    [][LET r == last'.req
       IN (Handled({"update"}) /\ r.id \in Ids(Hooked.table)) =>
            /\ last'.resp.code = 200
            /\ table'[r.id].status = (IF r.has_status THEN r.status ELSE "pending")
            /\ table'[r.id].vendor = (IF r.has_vendor THEN r.vendor ELSE <<>>)]_vars

\* A vendor-only update has returned a received row to pending.
C27_Witness ==
    /\ last.op = "update"
    /\ last.resp.code = 200
    /\ ~last.req.has_status
    /\ last.req.has_vendor
    /\ last.before.status = "received"
    /\ table[last.req.id].status = "pending"
    /\ table[last.req.id].vendor = <<"v">>

(***************************************************************************)
(* C28: the file of an upload.                                             *)
(***************************************************************************)
\* C28: when an upload has been answered with success, the file it wrote is
\* the one the addressed row names; an upload to an id that matches no row
\* leaves no new file that no row names.
C28_UploadedFileReferenced ==
    (last.op = "image_post" /\ last.resp.code = 200) =>
        /\ last.resp.filename \in files
        /\ last.req.id \in Ids(table)
        /\ table[last.req.id].images = last.resp.filename

(***************************************************************************)
(* C29: one file name per image.                                           *)
(***************************************************************************)
\* The rows of t other than x that name the file f.
RowsNaming(t, f, x) == { i \in Ids(t) \ {x} : t[i].images = f }

\* C29: image file names are unique per image.  Rows come to share a file
\* name only through copy: a create that stored an image, and an upload to
\* an existing row, give their row a file name that no other row names, also
\* within one second and after ids were renumbered.
C29_FilenamesUnique ==
    [][/\ (Handled({"add"}) /\ last'.resp.code = 302 /\ Truthy(last'.resp.filename))
            => RowsNaming(Hooked.table, last'.resp.filename, 0) = {}
       /\ (Handled({"image_post"}) /\ last'.resp.code = 200
                                   /\ last'.req.id \in Ids(Hooked.table))
            => RowsNaming(table', last'.resp.filename, last'.req.id) = {}]_vars

(***************************************************************************)
(* C30: the initialization flag.                                           *)
(***************************************************************************)
\* Thread t leaves the place where it is for the place `to`.
Moves(t, from, to) == pc[t] = from /\ pc'[t] = to

\* C30: the flag never returns to false; it becomes true only in the step
\* after a call of init_material_database has returned without raising, by
\* the thread that made the call; when the call raises the flag stays false
\* and the thread goes on to its handler; and every request that finds the
\* flag false, at the first test and again inside the lock, calls
\* init_material_database, so a request after a raise attempts it again.
C30_FlagSetOnlyOnSuccess ==
    [][/\ DB_INIT_DONE => DB_INIT_DONE'
       /\ (~DB_INIT_DONE /\ DB_INIT_DONE') =>
            (returned >= 1 /\ \E t \in Threads : Moves(t, "set", "handler"))
       /\ (returned' # returned) => \E t \in Threads : Moves(t, "init", "set")
       /\ (raised' # raised) =>
            (~DB_INIT_DONE' /\ \E t \in Threads : Moves(t, "init", "handler"))
       /\ \A t \in Threads :
            /\ (~DB_INIT_DONE /\ pc[t] = "check" /\ pc'[t] # "check") => pc'[t] = "acquire"
            /\ (~DB_INIT_DONE /\ pc[t] = "recheck" /\ pc'[t] # "recheck")
                 => (pc'[t] = "init" /\ started' = started + 1)]_vars

\* After a call that raised, with the flag still false, a request is inside
\* its own call of init_material_database.
C30_Witness ==
    /\ ~DB_INIT_DONE
    /\ raised = 1
    /\ started = 2
    /\ \E t \in Threads : pc[t] = "init" /\ lock = t
====
